---- MODULE Spec2Model ----
(***************************************************************************)
(* Filter-type generation and caching of src/lib/filters/filter.ts:        *)
(* generateFilterPropertyType, generateFilterInputType,                    *)
(* getFilterFullInputType and the Filter decorator, over the three         *)
(* module-level caches propertyTypes, filterTypes and filterFullTypes.     *)
(*                                                                         *)
(* A generated class is an entry of `heap`; its identity is its index.     *)
(* The caches map string keys to heap indices.                             *)
(*                                                                         *)
(* Spec runs every call as one step.  SpecReentrant runs                   *)
(* generateFilterInputType statement by statement (`gen` is the running    *)
(* call) and lets a callback request the same group while it runs.         *)
(***************************************************************************)
EXTENDS Integers, Sequences, FiniteSets, TLC

VARIABLES heap, propertyTypes, filterTypes, filterFullTypes, registered,
          calls, propCalls, paramMetadata, gen

vars == <<heap, propertyTypes, filterTypes, filterFullTypes, registered,
          calls, propCalls, paramMetadata, gen>>

\* Number of top-level calls (generate / wrap / Filter) in one behaviour.
MaxCalls == 3

----------------------------------------------------------------------------
\* Variant: the enum without its notin member.
OperationQueryWithoutNotin ==
    <<"eq", "neq", "gt", "gte", "lt", "lte", "in",
      "like", "notlike", "between", "notbetween", "null">>

\* enum OperationQuery, in declaration order (Object.keys order).
OperationQuery ==
    <<"eq", "neq", "gt", "gte", "lt", "lte", "in", "notin",
      "like", "notlike", "between", "notbetween", "null">>

arrayLikeOperations == {"between", "notbetween", "in"}

\* enum InputMapPrefixes
PropertyFilterType == "PropertyFilterType"

\* ./constants (not part of src/): the sentinel of the discriminator and
\* the optional prefix of operation attribute names (unset by default).
FILTER_DECORATOR_NAME_METADATA_KEY == "FilterPropertyDecorator"

FILTER_OPERATION_PREFIX == ""

----------------------------------------------------------------------------
\* The entity classes handed to the generators.  `properties` is the field
\* list the metadata registry resolves once the class is registered,
\* `extension` the name in the class's __extension__ ("" when absent),
\* `customFields` the fields declared through the custom filter input type.
\* typeFn is given by the value it returns: a scalar or an entity class.
FieldDef(n, t, d) == [name |-> n, typeFn |-> t, options |-> [description |-> d]]

\* FilterInputTypeFieldMetadata of a custom filter field.
CustomDef(n, t, e) == [name |-> n, typeFn |-> t, options |-> [sqlExp |-> e]]

EntityDecl ==
    [A  |-> [hasCustom |-> FALSE, customFields |-> <<>>, extension |-> "",
             properties |-> <<FieldDef("x", "String", "title"),
                              FieldDef("r", "B", "")>>],
     AA |-> [hasCustom |-> FALSE, customFields |-> <<>>, extension |-> "A",
             properties |-> <<FieldDef("x", "Int", ""),
                              FieldDef("xA", "Boolean", "")>>],
     B  |-> [hasCustom |-> FALSE, customFields |-> <<>>, extension |-> "",
             properties |-> <<FieldDef("y", "Boolean", "")>>],
     U  |-> [hasCustom |-> FALSE, customFields |-> <<>>, extension |-> "",
             properties |-> <<FieldDef("z", "String", "")>>],
     C  |-> [hasCustom |-> TRUE, extension |-> "A",
             customFields |-> <<CustomDef("fullName", "String", "concat(fname, lname)"),
                                CustomDef("age", "Int", "date_part(birth)")>>,
             properties |-> <<FieldDef("w", "String", "")>>],
     D  |-> [hasCustom |-> TRUE, extension |-> "",
             customFields |-> <<CustomDef("total", "Int", "price * qty")>>,
             properties |-> <<>>]]

Entities == DOMAIN EntityDecl

\* Classes the registry knows as object types before any call, and the
\* ones whose declaration finishes registering later.
InitiallyRegistered == {"A", "AA", "B"}

LateRegistered == {"U"}

\* The entity lists the callers pass.
Groups ==
    { <<"AA">>, <<"A", "AA">>, <<"AA", "A">>, <<"U">>, <<"D", "C">> }

\* What Filter is applied with: baseEntity() returns an array, or one class
\* (here together with an explicit argument name).
FilterInputs ==
    { [isArray |-> TRUE, value |-> g, options |-> [name |-> ""]] : g \in Groups }
    \cup
    { [isArray |-> FALSE, value |-> g, options |-> [name |-> "filter"]] :
        g \in { h \in Groups : Len(h) = 1 } }

----------------------------------------------------------------------------
\* A decorated field of a generated class.
Attr(n, isList, scalar, ref, nullable, dflt, desc) ==
    [name |-> n, list |-> isList, of |-> scalar, ref |-> ref,
     nullable |-> nullable, defaultValue |-> dflt, description |-> desc]

\* A generated class: InputType(name, {isAbstract}) plus its fields.
Class(kind, name, abstract, extends, fields) ==
    [kind |-> kind, name |-> name, isAbstract |-> abstract,
     extends |-> extends, fields |-> fields]

RECURSIVE JoinNames(_)
\* classes.map(x => x.name).join('')
JoinNames(classes) ==
    IF classes = <<>> THEN ""
    ELSE Head(classes) \o JoinNames(Tail(classes))

\* Map.get(key) is truthy
Has(map, key) == key \in DOMAIN map

\* Variant: setting a key evicts the other entries.
MapSetEvicting(map, key, value) == [k \in {key} |-> value]

\* Map.set(key, value)
MapSet(map, key, value) ==
    [k \in DOMAIN map \cup {key} |-> IF k = key THEN value ELSE map[k]]

\* {...field.options}: the options a field carries over to its attributes.
FieldDescription(field) ==
    IF "options" \in DOMAIN field /\ "description" \in DOMAIN field.options
    THEN field.options.description ELSE ""

\* The name an operation's attribute is registered under.
OperationAttrName(operationName) ==
    IF FILTER_OPERATION_PREFIX # ""
    THEN FILTER_OPERATION_PREFIX \o operationName ELSE operationName

\* Field(() => ..., {...field.options, nullable: true}) for one operation
\* of a predicate type.
OperationField(operationName, field) ==
    IF operationName \in arrayLikeOperations
    THEN Attr(OperationAttrName(operationName), TRUE, field.typeFn, 0, TRUE, "",
              FieldDescription(field))
    ELSE IF operationName = "null"
    THEN Attr(OperationAttrName(operationName), FALSE, "Boolean", 0, TRUE, "",
              FieldDescription(field))
    ELSE Attr(OperationAttrName(operationName), FALSE, field.typeFn, 0, TRUE, "",
              FieldDescription(field))

\* The cache key of a predicate type.
PropertyKey(fieldName, parentName) ==
    fieldName \o parentName \o PropertyFilterType

\* The PropertyFilter class built on a cache miss.
NewPropertyFilter(field, parentName) ==
    Class("PropertyFilter", PropertyKey(field.name, parentName), TRUE, 0,
          { OperationField(OperationQuery[i], field) :
              i \in 1..Len(OperationQuery) })

\* generateFilterPropertyType(field, parentName) on the store st;
\* returns the new store and the returned class.
generateFilterPropertyType(st, field, parentName) ==
    LET key == PropertyKey(field.name, parentName)
        hit == Has(st.propertyTypes, key)
        id  == IF hit THEN st.propertyTypes[key] ELSE Len(st.heap) + 1
        h2  == IF hit THEN st.heap
               ELSE Append(st.heap, NewPropertyFilter(field, parentName))
    IN  [st  |-> [st EXCEPT
                    !.heap = h2,
                    !.propertyTypes =
                        IF hit THEN @ ELSE MapSet(@, key, id),
                    !.propCalls = Append(@,
                        [name |-> field.name, parentName |-> parentName,
                         typeFn |-> field.typeFn, ret |-> id,
                         custom |-> "qlExp" \in DOMAIN field,
                         constructed |-> Len(h2) - Len(st.heap),
                         nfields |-> Cardinality(h2[id].fields)])],
         ret |-> id]

\* TypeMetadataStorage.getObjectTypeMetadataByTarget(target) is truthy.
HasObjectTypeMetadata(target, reg) == target \in reg

\* customFilterData.fields.map(x => ({name, typeFn, qlExp}))
CustomProperty(x) ==
    [name |-> x.name, typeFn |-> x.typeFn, qlExp |-> x.options.sqlExp]

\* Variant: custom filter data is ignored, every class is resolved through
\* the registry.
ClassPropertiesIgnoringCustom(typeFn, reg) ==
    IF ~HasObjectTypeMetadata(typeFn, reg)
    THEN [threw |-> TRUE,
          error |-> "DTO " \o typeFn \o " hasn't been initialized yet",
          props |-> <<>>]
    ELSE [threw |-> FALSE, error |-> "",
          props |-> EntityDecl[typeFn].properties]

\* The field list one class contributes (lines 104-129); threw when the
\* registry has no resolvable field list for it.
ClassProperties(typeFn, reg) ==
    LET decl == EntityDecl[typeFn]
        inherited ==
            IF decl.extension # "" /\ decl.extension \in reg
            THEN EntityDecl[decl.extension].properties ELSE <<>>
    IN  IF decl.hasCustom
        THEN [threw |-> FALSE, error |-> "",
              props |-> [i \in 1..Len(decl.customFields) |->
                           CustomProperty(decl.customFields[i])]]
        ELSE IF ~HasObjectTypeMetadata(typeFn, reg)
        THEN [threw |-> TRUE,
              error |-> "DTO " \o typeFn \o " hasn't been initialized yet",
              props |-> <<>>]
        ELSE [threw |-> FALSE, error |-> "",
              props |-> inherited \o decl.properties]

RECURSIVE CollectProperties(_, _)
\* The first loop of generateFilterInputType: stops at the first throw.
CollectProperties(classes, reg) ==
    IF classes = <<>> THEN [threw |-> FALSE, error |-> "", props |-> <<>>]
    ELSE LET one == ClassProperties(Head(classes), reg)
         IN  IF one.threw THEN one
             ELSE LET rest == CollectProperties(Tail(classes), reg)
                  IN  IF rest.threw THEN rest
                      ELSE [rest EXCEPT !.props = one.props \o @]

\* Variant: the relation branch is never taken.
IsRelationNever(field, reg) == FALSE

\* Whether the second loop skips the field (the relation branch).
IsRelation(field, reg) == HasObjectTypeMetadata(field.typeFn, reg)

\* Field(() => fieldType, {nullable: true})(PartialObjectType.prototype, name)
AddField(st, id, attr) ==
    [st EXCEPT !.heap[id].fields = @ \cup {attr}]

RECURSIVE PopulateFields(_, _, _, _, _)
\* The second loop of generateFilterInputType.
PopulateFields(st, id, properties, parentName, reg) ==
    IF properties = <<>> THEN st
    ELSE LET field == Head(properties)
         IN  IF IsRelation(field, reg)
             THEN PopulateFields(st, id, Tail(properties), parentName, reg)
             ELSE LET g == generateFilterPropertyType(st, field, parentName)
                  IN  PopulateFields(
                          AddField(g.st, id,
                                   Attr(field.name, FALSE, "", g.ret, TRUE, "", "")),
                          id, Tail(properties), parentName, reg)

\* The cache key of an entity filter type.
FilterKey(classes) == JoinNames(classes) \o PropertyFilterType

\* Variant: the placeholder class is created but not cached.
PlaceholderStoreUncached(st, key) ==
    [st EXCEPT !.heap = Append(@, Class("PartialObjectType", key, TRUE, 0, {}))]

\* Lines 92-99: class PartialObjectType {} is created and cached under key.
PlaceholderStore(st, key) ==
    [st EXCEPT
       !.heap = Append(@, Class("PartialObjectType", key, TRUE, 0, {})),
       !.filterTypes = MapSet(@, key, Len(st.heap) + 1)]

\* generateFilterInputType(classes) on the store st.
generateFilterInputType(st, classes, reg) ==
    LET concatinatedClassNames == JoinNames(classes)
        key == FilterKey(classes)
    IN  IF Has(st.filterTypes, key)
        THEN [st |-> st, threw |-> FALSE, error |-> "", ret |-> st.filterTypes[key]]
        ELSE
        LET id == Len(st.heap) + 1
            st1 == PlaceholderStore(st, key)
            coll == CollectProperties(classes, reg)
        IN  IF coll.threw
            THEN [st |-> st1, threw |-> TRUE, error |-> coll.error, ret |-> 0]
            ELSE [st |-> PopulateFields(st1, id, coll.props,
                                        concatinatedClassNames, reg),
                  threw |-> FALSE, error |-> "", ret |-> id]

\* The cache key of a root filter type.
FullKey(classes) == "where" \o JoinNames(classes) \o "Input"

RESERVED_DESCRIPTION ==
    "Don't touch this field. Reserved for nestjs-graphql-toos purposes."

\* class EntityWhereInput extends FilterInputType { _name_; and; or }
NewEntityWhereInput(key, FilterInputType) ==
    Class("EntityWhereInput", key, FALSE, FilterInputType,
          { Attr("_name_", FALSE, "String", 0, FALSE,
                 FILTER_DECORATOR_NAME_METADATA_KEY, RESERVED_DESCRIPTION),
            Attr("and", TRUE, "", FilterInputType, TRUE, "", ""),
            Attr("or", TRUE, "", FilterInputType, TRUE, "", "") })

\* Variant: the root cache is never consulted.
getFilterFullInputTypeNoCache(st, classes, reg) ==
    LET g == generateFilterInputType(st, classes, reg)
        id == Len(g.st.heap) + 1
    IN  IF g.threw THEN g
        ELSE [st |-> [g.st EXCEPT
                        !.heap = Append(@, NewEntityWhereInput(FullKey(classes), g.ret)),
                        !.filterFullTypes = MapSet(@, FullKey(classes), id)],
              threw |-> FALSE, error |-> "", ret |-> id]

\* getFilterFullInputType(classes) on the store st.
getFilterFullInputType(st, classes, reg) ==
    LET key == FullKey(classes)
    IN  IF Has(st.filterFullTypes, key)
        THEN [st |-> st, threw |-> FALSE, error |-> "",
              ret |-> st.filterFullTypes[key]]
        ELSE
        LET g == generateFilterInputType(st, classes, reg)
            id == Len(g.st.heap) + 1
        IN  IF g.threw THEN g
            ELSE [st |-> [g.st EXCEPT
                            !.heap = Append(@, NewEntityWhereInput(key, g.ret)),
                            !.filterFullTypes = MapSet(@, key, id)],
                  threw |-> FALSE, error |-> "", ret |-> id]

\* Filter: convert params to array.
TypeFunctions(extractedResults) ==
    IF extractedResults.isArray THEN extractedResults.value
    ELSE <<extractedResults.value[1]>>

\* Variant: the expression is read from the field, not from its options.
CustomFilterFieldDefinitionNoExp(field) ==
    [name |-> field.name, typeFn |-> field.typeFn, sqlExp |-> ""]

\* Filter: the entry pushed for one custom filter field.
CustomFilterFieldDefinition(field) ==
    [name |-> field.name, typeFn |-> field.typeFn,
     sqlExp |-> field.options.sqlExp]

\* x.prototype.getFields() mapped to the pushed entries, when the class
\* is a custom filter input type.
GetCustomFields(x) ==
    IF EntityDecl[x].hasCustom
    THEN [i \in 1..Len(EntityDecl[x].customFields) |->
            CustomFilterFieldDefinition(EntityDecl[x].customFields[i])]
    ELSE <<>>

RECURSIVE CustomFields(_)
\* Filter: typeFunctions.reduce(...) collecting the custom filter fields.
CustomFields(typeFunctions) ==
    IF typeFunctions = <<>> THEN <<>>
    ELSE GetCustomFields(Head(typeFunctions))
         \o CustomFields(Tail(typeFunctions))

\* Filter: the name of the registered argument.
ArgName(options) == IF options.name # "" THEN options.name ELSE "where"

----------------------------------------------------------------------------
Store ==
    [heap |-> heap, propertyTypes |-> propertyTypes,
     filterTypes |-> filterTypes, filterFullTypes |-> filterFullTypes,
     propCalls |-> propCalls]

\* Writes a store back and logs the top-level call: its arguments and
\* outcome, the registry it ran against, whether it populated the group's
\* entity filter type, that type, and the predicate-cache keys it added.
Commit(op, classes, r) ==
    LET key == FilterKey(classes)
        has == Has(r.st.filterTypes, key)
    IN
    /\ heap' = r.st.heap
    /\ propertyTypes' = r.st.propertyTypes
    /\ filterTypes' = r.st.filterTypes
    /\ filterFullTypes' = r.st.filterFullTypes
    /\ propCalls' = r.st.propCalls
    /\ calls' = Append(calls,
          [op |-> op, classes |-> classes, threw |-> r.threw,
           error |-> r.error, ret |-> r.ret, registered |-> registered,
           populated |-> ~r.threw /\ ~Has(filterTypes, key) /\ has,
           filterType |-> IF has THEN r.st.filterTypes[key] ELSE 0,
           newPropKeys |-> DOMAIN r.st.propertyTypes \ DOMAIN propertyTypes])

\* No call of generateFilterInputType is running.
Idle ==
    [stage |-> "idle", classes |-> <<>>, id |-> 0, rest |-> <<>>,
     keysAtEntry |-> {}, reentered |-> {}]

Init ==
    /\ heap = <<>>
    /\ propertyTypes = <<>>
    /\ filterTypes = <<>>
    /\ filterFullTypes = <<>>
    /\ registered = InitiallyRegistered
    /\ calls = <<>>
    /\ propCalls = <<>>
    /\ paramMetadata = <<>>
    /\ gen = Idle

\* A class declaration finishes registering with the metadata registry.
Register(e) ==
    /\ e \in LateRegistered \ registered
    /\ registered' = registered \cup {e}
    /\ UNCHANGED <<heap, propertyTypes, filterTypes, filterFullTypes,
                   calls, propCalls, paramMetadata, gen>>

Generate(classes) ==
    /\ Len(calls) < MaxCalls
    /\ Commit("generateFilterInputType", classes,
              generateFilterInputType(Store, classes, registered))
    /\ UNCHANGED <<registered, paramMetadata, gen>>

Wrap(classes) ==
    /\ Len(calls) < MaxCalls
    /\ Commit("getFilterFullInputType", classes,
              getFilterFullInputType(Store, classes, registered))
    /\ UNCHANGED <<registered, paramMetadata, gen>>

\* Filter(baseEntity, options) applied to a parameter.
Filter(extractedResults) ==
    /\ Len(calls) < MaxCalls
    /\ LET typeFunctions == TypeFunctions(extractedResults)
           r == getFilterFullInputType(Store, typeFunctions, registered)
       IN  /\ Commit("Filter", typeFunctions, r)
           /\ paramMetadata' =
                IF r.threw THEN paramMetadata
                ELSE Append(paramMetadata,
                       [call |-> Len(calls) + 1,
                        customFields |-> CustomFields(typeFunctions),
                        args |-> [name |-> ArgName(extractedResults.options), nullable |-> TRUE,
                                  type |-> r.ret]])
    /\ UNCHANGED <<registered, gen>>

Next ==
    \/ \E e \in Entities : Register(e)
    \/ \E g \in Groups : Generate(g)
    \/ \E g \in Groups : Wrap(g)
    \/ \E x \in FilterInputs : Filter(x)

Spec == Init /\ [][Next]_vars

----------------------------------------------------------------------------
\* generateFilterInputType statement by statement.

\* The store with one component replaced is written back.
WriteStore(st) ==
    /\ heap' = st.heap
    /\ propertyTypes' = st.propertyTypes
    /\ filterTypes' = st.filterTypes
    /\ filterFullTypes' = st.filterFullTypes
    /\ propCalls' = st.propCalls

\* The log entry of a call of generateFilterInputType that ran in steps.
Logged(classes, threw, error, ret, populated, newKeys) ==
    [op |-> "generateFilterInputType", classes |-> classes, threw |-> threw,
     error |-> error, ret |-> ret, registered |-> registered,
     populated |-> populated,
     filterType |-> IF Has(filterTypes, FilterKey(classes))
                    THEN filterTypes[FilterKey(classes)] ELSE 0,
     newPropKeys |-> newKeys]

\* Lines 86-90: the call finds the group cached and returns it.
EnterHit(classes) ==
    /\ gen.stage = "idle"
    /\ Len(calls) < MaxCalls
    /\ Has(filterTypes, FilterKey(classes))
    /\ calls' = Append(calls,
          Logged(classes, FALSE, "", filterTypes[FilterKey(classes)], FALSE, {}))
    /\ gen' = Idle
    /\ UNCHANGED <<heap, propertyTypes, filterTypes, filterFullTypes,
                   registered, propCalls, paramMetadata>>

\* Lines 86-99: cache miss, the placeholder is created and cached.
EnterMiss(classes) ==
    /\ gen.stage = "idle"
    /\ Len(calls) < MaxCalls
    /\ ~Has(filterTypes, FilterKey(classes))
    /\ WriteStore(PlaceholderStore(Store, FilterKey(classes)))
    /\ gen' = [stage |-> "resolve", classes |-> classes,
               id |-> Len(heap) + 1, rest |-> <<>>,
               keysAtEntry |-> DOMAIN propertyTypes, reentered |-> {}]
    /\ UNCHANGED <<registered, calls, paramMetadata>>

\* Lines 101-130: the first loop; it throws or leaves the merged list.
Resolve ==
    /\ gen.stage = "resolve"
    /\ LET coll == CollectProperties(gen.classes, registered)
       IN  IF coll.threw
           THEN /\ calls' = Append(calls,
                      Logged(gen.classes, TRUE, coll.error, 0, FALSE, {}))
                /\ gen' = Idle
           ELSE /\ gen' = [gen EXCEPT !.stage = "populate", !.rest = coll.props]
                /\ UNCHANGED calls
    /\ UNCHANGED <<heap, propertyTypes, filterTypes, filterFullTypes,
                   registered, propCalls, paramMetadata>>

\* Lines 132-148: one iteration of the second loop.
PopulateStep ==
    /\ gen.stage = "populate"
    /\ gen.rest # <<>>
    /\ WriteStore(PopulateFields(Store, gen.id, <<Head(gen.rest)>>,
                                 JoinNames(gen.classes), registered))
    /\ gen' = [gen EXCEPT !.rest = Tail(@)]
    /\ UNCHANGED <<registered, calls, paramMetadata>>

\* Line 150: return PartialObjectType.
Return ==
    /\ gen.stage = "populate"
    /\ gen.rest = <<>>
    /\ calls' = Append(calls,
          Logged(gen.classes, FALSE, "", gen.id, TRUE,
                 DOMAIN propertyTypes \ gen.keysAtEntry))
    /\ gen' = [gen EXCEPT !.stage = "idle"]
    /\ UNCHANGED <<heap, propertyTypes, filterTypes, filterFullTypes,
                   registered, propCalls, paramMetadata>>

\* A callback of the running call (a typeFn, the registry) requests the
\* same group: a nested, complete call of generateFilterInputType.  What it
\* returned and how many classes it created is kept with the running call.
Reenter ==
    /\ gen.stage \in {"resolve", "populate"}
    /\ LET r == generateFilterInputType(Store, gen.classes, registered)
       IN  /\ WriteStore(r.st)
           /\ gen' = [gen EXCEPT !.reentered = @ \cup
                        { [threw |-> r.threw, ret |-> r.ret,
                           constructed |-> Len(r.st.heap) - Len(heap)] }]
    /\ UNCHANGED <<registered, calls, paramMetadata>>

\* The statements that continue the running call.
Progress == Resolve \/ PopulateStep \/ Return

NextReentrant ==
    \/ \E e \in Entities : Register(e)
    \/ \E g \in Groups : EnterHit(g)
    \/ \E g \in Groups : EnterMiss(g)
    \/ Resolve
    \/ PopulateStep
    \/ Return
    \/ Reenter

\* The call is synchronous: once entered it runs to its return or throw.
SpecReentrant == Init /\ [][NextReentrant]_vars /\ WF_vars(Progress)

----------------------------------------------------------------------------
\* Helpers of the properties below.

\* The operation catalog as the specification lists it.
Catalog ==
    {"eq", "neq", "gt", "gte", "lt", "lte", "in", "notin",
     "like", "notlike", "between", "notbetween", "null"}

ArrayArity == {"in", "notin", "between", "notbetween"}

\* The attributes of class id named n.
AttrsNamed(id, n) == { a \in heap[id].fields : a.name = n }

\* The scalar a predicate type was built from, read off its eq attribute.
ScalarOf(id) == (CHOOSE a \in heap[id].fields : a.name = "eq").of

\* The merged field list of a group under registry reg (empty when the
\* resolution throws), and the names of its fields that are not relations.
Merged(classes, reg) == CollectProperties(classes, reg).props

KnownEntity(t, reg) == t \in Entities /\ t \in reg

FilterableNames(classes, reg) ==
    { Merged(classes, reg)[k].name :
        k \in { n \in DOMAIN Merged(classes, reg) :
                  ~KnownEntity(Merged(classes, reg)[n].typeFn, reg) } }

\* An entity of the group whose field list the registry cannot resolve.
Unresolved(e, reg) == ~EntityDecl[e].hasCustom /\ e \notin reg

\* The own properties of entity e named n.
Declares(e, n) ==
    \E k \in DOMAIN EntityDecl[e].properties : EntityDecl[e].properties[k].name = n

DeclaredType(e, n) ==
    LET k == CHOOSE i \in DOMAIN EntityDecl[e].properties :
                 EntityDecl[e].properties[i].name = n
    IN  EntityDecl[e].properties[k].typeFn

\* What a class exposes: its own fields and the inherited ones it does not
\* redeclare.
Exposed(id) ==
    heap[id].fields \cup
    (IF heap[id].extends = 0 THEN {}
     ELSE { a \in heap[heap[id].extends].fields :
              \A b \in heap[id].fields : b.name # a.name })

ReturnsRoot(c) == c.op \in {"getFilterFullInputType", "Filter"} /\ ~c.threw

----------------------------------------------------------------------------
\* C1: every operation attribute of every constructed predicate type has
\* the value type of the arity rule: list of the field's scalar for in,
\* notin, between, notbetween; Boolean for null; the scalar otherwise.
C1_ArityRule ==
    \A k \in DOMAIN propCalls :
        propCalls[k].constructed = 1 =>
            \A op \in Catalog :
                \E a \in heap[propCalls[k].ret].fields :
                    /\ a.name = op
                    /\ a.list = (op \in ArrayArity)
                    /\ a.of = (IF op = "null" THEN "Boolean"
                               ELSE propCalls[k].typeFn)

\* C2: a populating generation for two different entities that both declare
\* a field n gives exactly one attribute n, typed by a predicate type built
\* from the later entity's declaration of n.
C2_LastWriteWins ==
    \A i \in DOMAIN calls :
        LET c == calls[i] IN
        (/\ c.populated
         /\ Len(c.classes) = 2
         /\ c.classes[1] # c.classes[2]
         /\ ~EntityDecl[c.classes[1]].hasCustom
         /\ ~EntityDecl[c.classes[2]].hasCustom) =>
            \A n \in FilterableNames(c.classes, c.registered) :
                (Declares(c.classes[1], n) /\ Declares(c.classes[2], n)) =>
                    /\ Cardinality(AttrsNamed(c.filterType, n)) = 1
                    /\ \A a \in AttrsNamed(c.filterType, n) :
                           ScalarOf(a.ref) = DeclaredType(c.classes[2], n)

\* C3: two returning calls of generateFilterInputType with the same name
\* sequence return the same object, and that object carries one attribute
\* per filterable field of the group.
C3_SameNamesSamePopulatedType ==
    \A i \in DOMAIN calls : \A j \in DOMAIN calls :
        (/\ i < j
         /\ calls[i].op = "generateFilterInputType"
         /\ calls[j].op = "generateFilterInputType"
         /\ calls[i].classes = calls[j].classes
         /\ ~calls[i].threw /\ ~calls[j].threw) =>
            /\ calls[i].ret = calls[j].ret
            /\ { a.name : a \in heap[calls[j].ret].fields }
                 = FilterableNames(calls[j].classes, calls[j].registered)
            /\ \A n \in FilterableNames(calls[j].classes, calls[j].registered) :
                   Cardinality(AttrsNamed(calls[j].ret, n)) = 1

\* C4: every call for a group containing an entity without custom filter
\* fields that the registry cannot resolve raises the error naming it.
C4_UnresolvedAlwaysRaises ==
    \A i \in DOMAIN calls :
        LET c == calls[i]
            bad == { k \in DOMAIN c.classes : Unresolved(c.classes[k], c.registered) }
        IN  bad # {} =>
                /\ c.threw
                /\ \E k \in bad :
                       c.error = "DTO " \o c.classes[k] \o " hasn't been initialized yet"

\* C5: a populating generation adds no attribute and no predicate-cache
\* entry for a field whose value type is a known entity type, and exactly
\* one attribute for every other field of the merged list.
C5_RelationsSkipped ==
    \A i \in DOMAIN calls :
        LET c == calls[i]
            merged == Merged(c.classes, c.registered)
        IN  c.populated =>
              /\ \A k \in DOMAIN merged :
                    IF KnownEntity(merged[k].typeFn, c.registered)
                    THEN /\ AttrsNamed(c.filterType, merged[k].name) = {}
                         /\ PropertyKey(merged[k].name, JoinNames(c.classes))
                               \notin c.newPropKeys
                    ELSE Cardinality(AttrsNamed(c.filterType, merged[k].name)) = 1
              /\ \A a \in heap[c.filterType].fields :
                    \E k \in DOMAIN merged : merged[k].name = a.name

\* A generation populated a type from a list holding a relation field and a
\* scalar field.
C5_Witness ==
    \E i \in DOMAIN calls :
        /\ calls[i].populated
        /\ \E k \in DOMAIN Merged(calls[i].classes, calls[i].registered) :
              KnownEntity(Merged(calls[i].classes, calls[i].registered)[k].typeFn,
                          calls[i].registered)
        /\ heap[calls[i].filterType].fields # {}

\* C6: the root type returned for a group exposes exactly one predicate
\* attribute per filterable field of the group, typed as in the group's
\* entity filter type, plus and / or (optional lists of that entity filter
\* type) and _name_ defaulting to the sentinel.
C6_RootExposes ==
    \A i \in DOMAIN calls :
        LET c == calls[i] IN
        ReturnsRoot(c) =>
            /\ heap[c.ret].kind = "EntityWhereInput"
            /\ c.filterType # c.ret
            /\ Exposed(c.ret) =
                 heap[c.filterType].fields \cup
                 { Attr("_name_", FALSE, "String", 0, FALSE,
                        "FilterPropertyDecorator", RESERVED_DESCRIPTION),
                   Attr("and", TRUE, "", c.filterType, TRUE, "", ""),
                   Attr("or", TRUE, "", c.filterType, TRUE, "", "") }
            /\ { a.name : a \in heap[c.filterType].fields }
                 = FilterableNames(c.classes, c.registered)

\* C7: requests for [a, b] and for [b, a], a # b, use different cache keys
\* and return different entity filter types and different root types.
C7_OrderDistinct ==
    \A i \in DOMAIN calls : \A j \in DOMAIN calls :
        LET c == calls[i]
            d == calls[j]
        IN  (/\ Len(c.classes) = 2 /\ Len(d.classes) = 2
             /\ c.classes[1] # c.classes[2]
             /\ d.classes = <<c.classes[2], c.classes[1]>>
             /\ ~c.threw /\ ~d.threw) =>
                /\ FilterKey(c.classes) # FilterKey(d.classes)
                /\ FullKey(c.classes) # FullKey(d.classes)
                /\ c.filterType # d.filterType
                /\ (ReturnsRoot(c) /\ ReturnsRoot(d)) => c.ret # d.ret

\* The names, value types and optionality of a predicate type's attributes.
Shape(id) ==
    { [name |-> a.name, list |-> a.list, of |-> a.of, nullable |-> a.nullable] :
        a \in heap[id].fields }

\* The predicate type of a custom-expression field has exactly n attributes,
\* one optional attribute per operation of the catalog, with the names and
\* value types of the predicate type of a column-backed field of the same
\* scalar type.
CustomSameAsColumn(n) ==
    \A p \in DOMAIN propCalls :
        (propCalls[p].constructed = 1 /\ propCalls[p].custom) =>
            /\ Cardinality(heap[propCalls[p].ret].fields) = n
            /\ { a.name : a \in heap[propCalls[p].ret].fields } = Catalog
            /\ \A a \in heap[propCalls[p].ret].fields : a.nullable
            /\ \A q \in DOMAIN propCalls :
                  (/\ propCalls[q].constructed = 1
                   /\ ~propCalls[q].custom
                   /\ propCalls[q].typeFn = propCalls[p].typeFn) =>
                      Shape(propCalls[q].ret) = Shape(propCalls[p].ret)

RECURSIVE CustomCount(_, _)
\* The number of custom filter fields of the first i classes.
CustomCount(classes, i) ==
    IF i = 0 THEN 0
    ELSE CustomCount(classes, i - 1)
         + (IF EntityDecl[classes[i]].hasCustom
            THEN Len(EntityDecl[classes[i]].customFields) ELSE 0)

\* C9: the list recorded by a returning Filter holds exactly one entry
\* {name, typeFn, sqlExp} per custom filter field of each supplied entity
\* that declares custom filter fields, in entity order then field order;
\* a Filter that throws records nothing.
C9_RecordedCustomFields ==
    /\ \A i \in DOMAIN calls :
          Cardinality({ m \in DOMAIN paramMetadata : paramMetadata[m].call = i })
            = (IF calls[i].op = "Filter" /\ ~calls[i].threw THEN 1 ELSE 0)
    /\ \A m \in DOMAIN paramMetadata :
          LET classes == calls[paramMetadata[m].call].classes
              recorded == paramMetadata[m].customFields
          IN  /\ Len(recorded) = CustomCount(classes, Len(classes))
              /\ \A i \in DOMAIN classes :
                    EntityDecl[classes[i]].hasCustom =>
                        \A k \in DOMAIN EntityDecl[classes[i]].customFields :
                            LET f == EntityDecl[classes[i]].customFields[k]
                                e == recorded[CustomCount(classes, i - 1) + k]
                            IN  /\ DOMAIN e = {"name", "typeFn", "sqlExp"}
                                /\ e.name = f.name
                                /\ e.typeFn = f.typeFn
                                /\ e.sqlExp = f.options.sqlExp
                                /\ AttrsNamed(calls[paramMetadata[m].call].filterType,
                                              f.name) # {}

\* Filter recorded the custom fields of a group of two custom filter input
\* types.
C9_Witness ==
    \E m \in DOMAIN paramMetadata :
        /\ Len(paramMetadata[m].customFields) = 3
        /\ Len(calls[paramMetadata[m].call].classes) = 2

\* C10: two calls of generateFilterPropertyType with the same field name
\* and group key return the same object; the first call with that pair
\* constructs it, a later one constructs nothing and adds no attribute.
C10_PropertyMemo ==
    \A j \in DOMAIN propCalls :
        LET earlier == { i \in 1..(j - 1) :
                           /\ propCalls[i].name = propCalls[j].name
                           /\ propCalls[i].parentName = propCalls[j].parentName }
        IN  /\ earlier = {} => propCalls[j].constructed = 1
            /\ \A i \in earlier :
                  /\ propCalls[i].ret = propCalls[j].ret
                  /\ propCalls[j].constructed = 0
                  /\ propCalls[j].nfields = propCalls[i].nfields

----------------------------------------------------------------------------
\* The generated root classes named for group g.
RootsOf(g) ==
    { k \in DOMAIN heap :
        heap[k].kind = "EntityWhereInput" /\ heap[k].name = FullKey(g) }

\* C11: every returning root request for a name sequence yields the same
\* root object, at most one root is constructed per group, the root extends
\* the entity filter type generateFilterInputType returns for the group,
\* and the root and the entity filter type are different objects held in
\* different caches.
C11_OneRootPerGroup ==
    /\ \A g \in Groups : Cardinality(RootsOf(g)) <= 1
    /\ \A i \in DOMAIN calls :
          LET c == calls[i] IN
          ReturnsRoot(c) =>
              /\ heap[c.ret].kind = "EntityWhereInput"
              /\ filterFullTypes[FullKey(c.classes)] = c.ret
              /\ heap[c.ret].extends = filterTypes[FilterKey(c.classes)]
              /\ heap[c.ret].extends # c.ret
              /\ \A k \in DOMAIN filterTypes : filterTypes[k] # c.ret
              /\ \A j \in DOMAIN calls :
                    (calls[j].classes = c.classes /\ ~calls[j].threw) =>
                        IF ReturnsRoot(calls[j])
                        THEN calls[j].ret = c.ret
                        ELSE calls[j].ret = heap[c.ret].extends

\* The same group was wrapped twice and generated once, all returning.
C11_Witness ==
    \E i \in DOMAIN calls : \E j \in DOMAIN calls : \E k \in DOMAIN calls :
        /\ i < j
        /\ ReturnsRoot(calls[i]) /\ ReturnsRoot(calls[j])
        /\ calls[k].op = "generateFilterInputType" /\ ~calls[k].threw
        /\ calls[i].classes = calls[j].classes
        /\ calls[i].classes = calls[k].classes

\* C12: for an entity with a registered parent the parent's fields come
\* first in the merged list, and a field declared by parent and child gets
\* one attribute, typed by a predicate type built from the child's
\* declaration.
C12_ChildOverridesParent ==
    \A i \in DOMAIN calls :
        LET c == calls[i]
            e == c.classes[1]
            p == EntityDecl[e].extension
        IN  (/\ c.populated
             /\ Len(c.classes) = 1
             /\ ~EntityDecl[e].hasCustom
             /\ p # "" /\ p \in c.registered) =>
                /\ Merged(c.classes, c.registered)
                     = EntityDecl[p].properties \o EntityDecl[e].properties
                /\ \A n \in FilterableNames(c.classes, c.registered) :
                      (Declares(p, n) /\ Declares(e, n)) =>
                          /\ Cardinality(AttrsNamed(c.filterType, n)) = 1
                          /\ \A a \in AttrsNamed(c.filterType, n) :
                                ScalarOf(a.ref) = DeclaredType(e, n)

\* The names of the custom filter fields of the classes.
CustomNames(classes) ==
    UNION { { EntityDecl[classes[k]].customFields[n].name :
                n \in DOMAIN EntityDecl[classes[k]].customFields } :
            k \in DOMAIN classes }

\* C13: a class that declares custom filter fields contributes exactly
\* those fields; its schema fields and its parent's fields contribute no
\* attribute, and the uninitialized-entity error is never raised for it,
\* registered or not.
C13_CustomBypassesResolution ==
    \A i \in DOMAIN calls :
        LET c == calls[i]
            allCustom == \A k \in DOMAIN c.classes : EntityDecl[c.classes[k]].hasCustom
        IN  /\ \A k \in DOMAIN c.classes :
                  EntityDecl[c.classes[k]].hasCustom =>
                      c.error # "DTO " \o c.classes[k] \o " hasn't been initialized yet"
            /\ allCustom => ~c.threw
            /\ (allCustom /\ c.populated) =>
                  /\ { a.name : a \in heap[c.filterType].fields }
                       = CustomNames(c.classes)
                  /\ \A k \in DOMAIN c.classes :
                        \A n \in DOMAIN EntityDecl[c.classes[k]].customFields :
                            LET f == EntityDecl[c.classes[k]].customFields[n]
                            IN  \A a \in AttrsNamed(c.filterType, f.name) :
                                    ScalarOf(a.ref) = f.typeFn

\* A group of custom filter input types was populated although one of them
\* is unknown to the registry and has schema fields and a parent.
C13_Witness ==
    \E i \in DOMAIN calls :
        /\ calls[i].populated
        /\ \E k \in DOMAIN calls[i].classes :
              LET e == calls[i].classes[k] IN
              /\ EntityDecl[e].hasCustom
              /\ e \notin calls[i].registered
              /\ EntityDecl[e].properties # <<>>
              /\ EntityDecl[e].extension # ""

\* Every entry of the old map is an entry of the new one.
Kept(old, new) ==
    \A k \in DOMAIN old : k \in DOMAIN new /\ new[k] = old[k]

\* C14: a step never removes or replaces an entry of the three caches, and
\* never changes a class returned to a top-level caller, nor the class it
\* extends.
C14_CachesOnlyGrow ==
    [][ /\ Kept(propertyTypes, propertyTypes')
        /\ Kept(filterTypes, filterTypes')
        /\ Kept(filterFullTypes, filterFullTypes')
        /\ \A i \in DOMAIN calls :
              ~calls[i].threw =>
                  /\ heap'[calls[i].ret] = heap[calls[i].ret]
                  /\ heap[calls[i].ret].extends # 0 =>
                        heap'[heap[calls[i].ret].extends]
                          = heap[heap[calls[i].ret].extends] ]_vars

\* The three caches hold entries and two calls have returned.
C14_Witness ==
    /\ DOMAIN propertyTypes # {}
    /\ DOMAIN filterTypes # {}
    /\ DOMAIN filterFullTypes # {}
    /\ Cardinality({ i \in DOMAIN calls : ~calls[i].threw }) >= 2
    /\ Cardinality(DOMAIN filterTypes) >= 2

\* C16: a call that fails with the uninitialized-entity error leaves the
\* three caches as they were before it.
C16_FailureLeavesCaches ==
    [][ (Len(calls') > Len(calls) /\ calls'[Len(calls')].threw) =>
            /\ propertyTypes' = propertyTypes
            /\ filterTypes' = filterTypes
            /\ filterFullTypes' = filterFullTypes ]_vars

\* C17: two requests return the same entity filter type, or the same root
\* type, only if they were made with the same name sequence.
C17_SameTypeOnlyForSameNames ==
    \A i \in DOMAIN calls : \A j \in DOMAIN calls :
        LET c == calls[i]
            d == calls[j]
        IN  (/\ ~c.threw /\ ~d.threw
             /\ \/ c.filterType = d.filterType
                \/ ReturnsRoot(c) /\ ReturnsRoot(d) /\ c.ret = d.ret) =>
                c.classes = d.classes

\* C18: two calls of generateFilterPropertyType return the same object only
\* if they have the same field name and the same group key.
C18_SameTypeOnlyForSamePair ==
    \A i \in DOMAIN propCalls : \A j \in DOMAIN propCalls :
        propCalls[i].ret = propCalls[j].ret =>
            /\ propCalls[i].name = propCalls[j].name
            /\ propCalls[i].parentName = propCalls[j].parentName

----------------------------------------------------------------------------
\* While a generation runs its placeholder is the cached type of the group,
\* empty and with no predicate type generated until the fields are
\* resolved; every re-entrant request got that placeholder and created
\* nothing; and the call that returned last returned that same class.
PlaceholderFirst ==
    /\ gen.stage # "idle" =>
          /\ Has(filterTypes, FilterKey(gen.classes))
          /\ filterTypes[FilterKey(gen.classes)] = gen.id
          /\ heap[gen.id].kind = "PartialObjectType"
    /\ gen.stage = "resolve" =>
          /\ heap[gen.id].fields = {}
          /\ DOMAIN propertyTypes = gen.keysAtEntry
    /\ \A e \in gen.reentered :
          ~e.threw /\ e.ret = gen.id /\ e.constructed = 0
    /\ (gen.stage = "idle" /\ gen.id # 0) =>
          /\ ~calls[Len(calls)].threw
          /\ calls[Len(calls)].ret = gen.id

\* C15: on a cache miss the placeholder is cached before any field is
\* resolved or any predicate type generated; a re-entrant request for the
\* group being populated returns that placeholder, the object the outer
\* call finally returns, without a second generation; and every generation
\* that was entered ends.
C15_PlaceholderBeforePopulate ==
    /\ []PlaceholderFirst
    /\ (gen.stage # "idle") ~> (gen.stage = "idle")

\* A generation that was re-entered has returned its populated type.
C15_Witness ==
    /\ gen.stage = "idle"
    /\ gen.id # 0
    /\ gen.reentered # {}
    /\ heap[gen.id].fields # {}

====
